---- MODULE Spec2Model ----
(***************************************************************************)
(* Model of plotting_benchmark/vis_generator.py: the VisGenerator pipeline *)
(* (generate_code, build_new_nb, build_plots, parse_plots_notebook,        *)
(* draw_plots) and add_index_to_filename.                                  *)
(*                                                                         *)
(* Text the program computes on (an id, the marker line, the data-loading   *)
(* code) is a sequence of one-character strings, so that formatting,       *)
(* parsing and replacing are computed the way Python computes them.  A     *)
(* line the program only passes on is a sequence of one piece.  The        *)
(* characters are ASCII.                                                   *)
(***************************************************************************)
EXTENDS Integers, Sequences, FiniteSets, TLC

VARIABLES
    pc,        \* position of the caller / of the pipeline
    csv,       \* ids whose data-<id>.csv exists in csv_folder
    lib,       \* config.plotting_lib
    folder,    \* output folder: the notebook files in it and the call that made each;
               \* the file of index i is plots_..._<i>.ipynb, the file AllPlots is
               \* all_plots.ipynb
    hist,      \* the calls of add_index_to_filename so far: what each saw and returned
    last,      \* second value of the latest add_index_to_filename call
    path,      \* self.plots_nb_path: AllPlots, or the index of plots_..._<i>.ipynb
    table,     \* the item table handed to the operation
    nb,        \* what the notebook file at path holds while a call works on it
               \* (sequence of cells)
    kernel,    \* the executor process: work copy, position, namespace, rc state
    response,  \* what parse_plots_notebook returned
    result     \* what the operation returned or raised

vars == <<pc, csv, lib, folder, hist, last, path, table, nb, kernel, response, result>>

----------------------------------------------------------------------------
(* Bounds of the model *)

MaxItems == 2      \* rows of an item table; ids are 1..MaxItems
MaxIndex == 1      \* highest file index present before the first run
MaxRuns == 2       \* calls of add_index_to_filename (pipeline runs) in one folder
MaxOutputs == 2    \* captured outputs of one cell of a parsed notebook
MaxInt == 12       \* integer ids of the marker round trip are -MaxInt..MaxInt
MaxStrLen == 2     \* length of a string id of the marker round trip

----------------------------------------------------------------------------
(* Text *)

Digits == <<"0", "1", "2", "3", "4", "5", "6", "7", "8", "9">>

DigitSet == {Digits[i] : i \in 1..10}

DigitVal(c) == (CHOOSE i \in 1..10 : Digits[i] = c) - 1

\* the ASCII characters int() strips from both ends of its argument: space, \t, \n,
\* \r, \f and the vertical tab
Whitespace == {" ", "\n", "\t", "\r", "\f", ""}

RECURSIVE NatStr(_)
NatStr(n) == IF n < 10 THEN <<Digits[n + 1]>>
             ELSE NatStr(n \div 10) \o <<Digits[(n % 10) + 1]>>

\* str(n) of a Python int
IntStr(n) == IF n < 0 THEN <<"-">> \o NatStr(-n) ELSE NatStr(n)

\* s.lstrip(chars): drops every leading character that is in the set chars
RECURSIVE LStrip(_, _)
LStrip(s, chars) == IF s /= <<>> /\ Head(s) \in chars THEN LStrip(Tail(s), chars) ELSE s

RECURSIVE RStrip(_, _)
RStrip(s, chars) ==
    IF s /= <<>> /\ s[Len(s)] \in chars THEN RStrip(SubSeq(s, 1, Len(s) - 1), chars) ELSE s

StartsWith(s, p) == Len(s) >= Len(p) /\ SubSeq(s, 1, Len(p)) = p

\* s.split(sep) for a separator of one character
RECURSIVE Split(_, _)
Split(s, sep) ==
    IF \A i \in 1..Len(s) : s[i] /= sep THEN <<s>>
    ELSE LET k == CHOOSE i \in 1..Len(s) : s[i] = sep /\ \A j \in 1..(i - 1) : s[j] /= sep
         IN  <<SubSeq(s, 1, k - 1)>> \o Split(SubSeq(s, k + 1, Len(s)), sep)

\* sep.join(parts)
RECURSIVE Join(_, _)
Join(parts, sep) ==
    IF parts = <<>> THEN <<>>
    ELSE IF Len(parts) = 1 THEN parts[1]
    ELSE parts[1] \o sep \o Join(Tail(parts), sep)

\* str(PurePosixPath(s)): empty and "." components are dropped, a leading "/" is
\* kept (two of them are kept as two), ".." is left alone
PurePosixPath(s) ==
    LET root == IF StartsWith(s, <<"/", "/">>) /\ ~StartsWith(s, <<"/", "/", "/">>)
                THEN <<"/", "/">>
                ELSE IF StartsWith(s, <<"/">>) THEN <<"/">> ELSE <<>>
        parts == SelectSeq(Split(s, "/"), LAMBDA c : c \notin {<<>>, <<".">>})
    IN  IF root = <<>> /\ parts = <<>> THEN <<".">> ELSE root \o Join(parts, <<"/">>)

\* s.replace(old, new): every occurrence of old, found from left to right, the
\* search going on after the end of the occurrence replaced
RECURSIVE Replace(_, _, _)
Replace(s, old, new) ==
    IF old = <<>>
    THEN IF s = <<>> THEN new ELSE new \o <<Head(s)>> \o Replace(Tail(s), old, new)
    ELSE IF s = <<>> THEN <<>>
    ELSE IF StartsWith(s, old)
        THEN new \o Replace(SubSeq(s, Len(old) + 1, Len(s)), old, new)
    ELSE <<Head(s)>> \o Replace(Tail(s), old, new)

RECURSIVE DigitsVal(_, _)
DigitsVal(s, acc) == IF s = <<>> THEN acc
                     ELSE IF Head(s) = "_" THEN DigitsVal(Tail(s), acc)
                     ELSE DigitsVal(Tail(s), 10 * acc + DigitVal(Head(s)))

\* the digit part of an int literal: digits, single underscores only between digits
IsDigitPart(s) ==
    /\ s /= <<>>
    /\ \A i \in 1..Len(s) : s[i] \in DigitSet \cup {"_"}
    /\ s[1] /= "_" /\ s[Len(s)] /= "_"
    /\ \A i \in 1..(Len(s) - 1) : ~(s[i] = "_" /\ s[i + 1] = "_")

\* int(s) of a Python str, base 10: [ok |-> FALSE] stands for ValueError
PyInt(s) ==
    LET t == RStrip(LStrip(s, Whitespace), Whitespace)
        signed == t /= <<>> /\ Head(t) \in {"+", "-"}
        d == IF signed THEN Tail(t) ELSE t
    IN  IF IsDigitPart(d)
        THEN [ok |-> TRUE,
              val |-> IF signed /\ Head(t) = "-" THEN -DigitsVal(d, 0) ELSE DigitsVal(d, 0)]
        ELSE [ok |-> FALSE, val |-> 0]

----------------------------------------------------------------------------
(* Ids: an item id is a Python int or a Python str *)

IntId(n) == [kind |-> "int", n |-> n, s |-> <<>>]

StrId(s) == [kind |-> "str", n |-> 0, s |-> s]

\* f"{item['id']}"
FormatId(id) == IF id.kind = "int" THEN IntStr(id.n) ELSE id.s

----------------------------------------------------------------------------
(* add_index_to_filename *)

None == -1

\* the while loop: i is the index of results_file, lastf the last existing file
RECURSIVE Probe(_, _, _)
Probe(exists, i, lastf) ==
    IF i \in exists THEN Probe(exists, i + 1, i)
    ELSE [results_file |-> i, last_existing_file |-> lastf]

Max(S) == CHOOSE x \in S : \A y \in S : y <= x

add_index_after_highest(exists) ==
    IF exists = {} THEN [results_file |-> 0, last_existing_file |-> None]
    ELSE [results_file |-> Max(exists) + 1, last_existing_file |-> Max(exists)]

add_index_always_zero(exists) == [results_file |-> 0, last_existing_file |-> None]

\* exists: the indices i whose file <stem>_<i> exists in the folder
add_index_to_filename(exists) == Probe(exists, 0, None)

----------------------------------------------------------------------------
(* Notebook cells and outputs *)

Plain == {"text/plain"}

Png == {"image/png", "text/plain"}

ErrorOutput(ename, evalue) ==
    [output_type |-> "error", ename |-> ename, evalue |-> evalue, data |-> {}, image |-> 0]

\* data holds the mime types of the bundle, image the value under "image/png"
DisplayData(mimes, image) ==
    [output_type |-> "display_data", ename |-> "", evalue |-> "", data |-> mimes,
     image |-> image]

ExecuteResult(mimes, image) ==
    [output_type |-> "execute_result", ename |-> "", evalue |-> "", data |-> mimes,
     image |-> image]

StreamOutput ==
    [output_type |-> "stream", ename |-> "", evalue |-> "", data |-> {}, image |-> 0]

\* nbf.v4.new_code_cell(block): first is the first line of the source as text (the
\* source never starts with an empty line, so lstrip("\n") leaves it as it is),
\* body the statements on the lines after it
new_code_cell(block) ==
    [cell_type |-> "code", first |-> block.first, body |-> block.body, outputs |-> <<>>]

MarkdownCell ==
    [cell_type |-> "markdown", first |-> <<"#", " ", "i", "d", " ", "=", " ", "1">>,
     body |-> <<>>, outputs |-> <<>>]

----------------------------------------------------------------------------
(* generate_code *)

Families == {"matplotlib", "seaborn", "plotly", "lets-plot"}

\* "<family>" in plotting_lib: plotting_lib is the set of families its text mentions
Mentions(plotting_lib, family) == family \in plotting_lib

MarkerPrefix == <<"#", " ", "i", "d", " ", "=", " ">>

SetupLine == <<"#", " ", "S", "e", "t", "u", "p">>

\* self.csv_folder
CsvFolder == <<"c", "s", "v">>

DataCsv == <<"d", "a", "t", "a", ".", "c", "s", "v">>

\* csv_path = self.csv_folder / f"data-{item['id']}.csv", as the text of the path
csv_path(id) ==
    PurePosixPath(CsvFolder \o <<"/", "d", "a", "t", "a", "-">> \o FormatId(id)
                      \o <<".", "c", "s", "v">>)

CsvExistsAlways(csvs, item) == TRUE

\* csv_path.exists(); csvs: the paths of the csv files there are
CsvExists(csvs, item) == csv_path(item.id) \in csvs

\* data_path_unix = str(PurePosixPath(csv_path))
data_path_unix(item) == csv_path(item.id)

\* item["code_data"].replace("data.csv", data_path_unix)
data_load_code(item) == Replace(item.code_data, DataCsv, data_path_unix(item))

generate_code(item, plotting_lib) ==
    [first |-> MarkerPrefix \o FormatId(item.id),
     body |->
        (IF Mentions(plotting_lib, "matplotlib") \/ Mentions(plotting_lib, "seaborn")
         THEN <<<<"%matplotlib inline">>>> ELSE <<>>)
        \o (IF Mentions(plotting_lib, "plotly")
            THEN <<<<"import plotly.io as pio">>, <<"pio.renderers.default = \"png\"">>>>
            ELSE <<>>)
        \o <<data_load_code(item)>> \o item.code
        \o (IF Mentions(plotting_lib, "matplotlib") \/ Mentions(plotting_lib, "seaborn")
            THEN <<<<"plt.rcParams.update(plt.rcParamsDefault)">>>> ELSE <<>>)
        \o (IF Mentions(plotting_lib, "seaborn") THEN <<<<"sns.reset_orig()">>>> ELSE <<>>)
        \o <<<<"%reset -f">>>>]

setup_cell(plotting_lib) ==
    IF Mentions(plotting_lib, "lets-plot")
    THEN <<[first |-> SetupLine,
            body |-> <<<<"!pip install lets-plot">>,
                       <<"!jupyter nbextension install lets-plot --py --sys-prefix">>,
                       <<"!jupyter nbextension enable lets-plot --py --sys-prefix">>>>]>>
    ELSE <<>>

\* plot_cells of build_plots: the setup cell, then one block per row, in row order
plot_cells(dataset, plotting_lib) ==
    setup_cell(plotting_lib)
    \o [i \in 1..Len(dataset.rows) |-> generate_code(dataset.rows[i], plotting_lib)]

\* build_new_nb: one code cell per block
build_new_nb(blocks) == [i \in 1..Len(blocks) |-> new_code_cell(blocks[i])]

\* generate_code raises FileNotFoundError for some row of the table
MissingCsv(csvs, dataset) ==
    \E i \in 1..Len(dataset.rows) : ~CsvExists(csvs, dataset.rows[i])

----------------------------------------------------------------------------
(* The executor: jupyter nbconvert --execute --allow-errors --inplace *)

no_allow_errors == FALSE

\* --allow-errors of the command line of build_plots
allow_errors == TRUE

\* the statement of code_data that binds pd
ImportPandas ==
    <<"i", "m", "p", "o", "r", "t", " ", "p", "a", "n", "d", "a", "s", " ", "a", "s",
      " ", "p", "d">>

\* the start of the statement of code_data that binds df to the frame read from a
\* csv file
ReadCsvCall ==
    <<"d", "f", " ", "=", " ", "p", "d", ".", "r", "e", "a", "d", "_", "c", "s", "v", "(">>

\* the cell stops on NameError: the name is not bound in the namespace
NameError(st, evalue) ==
    [st EXCEPT !.outputs = Append(@, ErrorOutput("NameError", evalue)), !.raised = TRUE]

\* One statement of a cell run in the kernel. st: ns the names bound in the user
\* namespace, rc whether plotting-library global state differs from its default,
\* outputs the outputs captured so far, raised whether the cell has stopped on an
\* exception (the statements after it are not run).
RunStmt(stmt, st) ==
    IF st.raised THEN st
    ELSE IF stmt = ImportPandas
        THEN [st EXCEPT !.ns = @ \cup {"pd"}]
    ELSE IF stmt = <<"import matplotlib.pyplot as plt">>
        THEN [st EXCEPT !.ns = @ \cup {"plt"}]
    ELSE IF stmt = <<"import seaborn as sns">>
        THEN [st EXCEPT !.ns = @ \cup {"sns"}]
    ELSE IF stmt = <<"import plotly.io as pio">>
        THEN [st EXCEPT !.ns = @ \cup {"pio"}]
    ELSE IF stmt = <<"pio.renderers.default = \"png\"">>
        THEN IF "pio" \in st.ns THEN st ELSE NameError(st, "name 'pio' is not defined")
    ELSE IF StartsWith(stmt, ReadCsvCall)
        THEN IF "pd" \in st.ns THEN [st EXCEPT !.ns = @ \cup {"df"}]
             ELSE NameError(st, "name 'pd' is not defined")
    ELSE IF stmt = <<"plot">>
        THEN [st EXCEPT !.outputs =
                 Append(@, DisplayData(Png, 1 + Cardinality({i \in 1..Len(@) :
                                             @[i].output_type = "display_data"})))]
    ELSE IF stmt = <<"raise">>
        THEN [st EXCEPT !.outputs = Append(@, ErrorOutput("ZeroDivisionError",
                                                          "division by zero")),
                        !.raised = TRUE]
    ELSE IF stmt = <<"style">>
        THEN [st EXCEPT !.rc = TRUE]
    ELSE IF stmt = <<"plt.rcParams.update(plt.rcParamsDefault)">>
        THEN IF "plt" \in st.ns THEN [st EXCEPT !.rc = FALSE]
             ELSE NameError(st, "name 'plt' is not defined")
    ELSE IF stmt = <<"sns.reset_orig()">>
        THEN IF "sns" \in st.ns THEN [st EXCEPT !.rc = FALSE]
             ELSE NameError(st, "name 'sns' is not defined")
    ELSE IF stmt = <<"%reset -f">>
        THEN [st EXCEPT !.ns = {}]
    ELSE st

RECURSIVE RunStmts(_, _)
RunStmts(stmts, st) ==
    IF stmts = <<>> THEN st ELSE RunStmts(Tail(stmts), RunStmt(Head(stmts), st))

\* the statements of a cell: the lines of its blocks
RECURSIVE Statements(_)
Statements(body) ==
    IF body = <<>> THEN <<>> ELSE Split(Head(body), "\n") \o Statements(Tail(body))

\* One cell run in the kernel whose namespace is ns and rc state is rc
RunCell(cell, ns, rc) ==
    RunStmts(Statements(cell.body),
             [ns |-> ns, rc |-> rc, outputs |-> <<>>, raised |-> FALSE])

\* fault: "" none, "host" the process could not start or died, "cell" a cell raised
\* and errors were not allowed
KernelIdle == [running |-> FALSE, pos |-> 0, ns |-> {}, rc |-> FALSE, work |-> <<>>,
               status |-> 0, fault |-> ""]

----------------------------------------------------------------------------
(* parse_plots_notebook *)

ParseIdxStripMinus(first) == PyInt(LStrip(first, {"#", " ", "i", "d", "=", "-"}))

\* idx = int(code.split("\n")[0].lstrip("# id = "))
ParseIdx(first) == PyInt(LStrip(first, {"#", " ", "i", "d", "="}))

ScanErrorFirst(err, output) ==
    IF output.output_type = "error" /\ err = <<>>
    THEN <<output.ename, ": ", output.evalue>> ELSE err

\* the error assignment of the loop over the outputs of one cell; an error text is
\* the sequence of the pieces concatenated into it, the empty text is <<>>
ScanError(err, output) ==
    IF output.output_type = "error" THEN <<output.ename, ": ", output.evalue>> ELSE err

\* the loop over the outputs of one cell
RECURSIVE ScanOutputs(_, _)
ScanOutputs(outputs, res) ==
    IF outputs = <<>> THEN res
    ELSE LET output == Head(outputs)
         IN  ScanOutputs(Tail(outputs),
                 IF output.output_type = "error"
                 THEN [res EXCEPT !.error = ScanError(res.error, output)]
                 ELSE IF output.output_type = "display_data" /\ "image/png" \in output.data
                 THEN [res EXCEPT !.images = Append(@, output.image)]
                 ELSE res)

HasPlotMany(images) == Len(images) > 1

\* cell_res["has_plot"] = len(images) > 0
HasPlot(images) == Len(images) > 0

\* cell_res of one marked cell
CellRes(idx, outputs) ==
    LET res == ScanOutputs(outputs, [error |-> <<>>, images |-> <<>>])
    IN  [id |-> IntId(idx), error |-> res.error, plots_generated |-> res.images,
         has_plot |-> HasPlot(res.images)]

IsMarked(cell) == cell.cell_type = "code" /\ StartsWith(cell.first, MarkerPrefix)

\* the loop over nb.cells; err = "ValueError" when int() raises on a marked cell
RECURSIVE ParseCells(_, _)
ParseCells(cells, acc) ==
    IF cells = <<>> THEN [err |-> "", rows |-> acc]
    ELSE IF ~IsMarked(Head(cells)) THEN ParseCells(Tail(cells), acc)
    ELSE LET idx == ParseIdx(Head(cells).first)
         IN  IF ~idx.ok THEN [err |-> "ValueError", rows |-> <<>>]
             ELSE ParseCells(Tail(cells), Append(acc, CellRes(idx.val, Head(cells).outputs)))

OutcomeCols == <<"id", "error", "plots_generated", "has_plot">>

\* pd.DataFrame(plot_results): a frame built from no records has no columns
DataFrame(records) ==
    [err |-> "", cols |-> IF records = <<>> THEN <<>> ELSE OutcomeCols, rows |-> records]

Raised(e) == [err |-> e, cols |-> <<>>, rows |-> <<>>]

parse_plots_notebook(cells) ==
    LET p == ParseCells(cells, <<>>)
    IN  IF p.err /= "" THEN Raised(p.err) ELSE DataFrame(p.rows)

----------------------------------------------------------------------------
(* The merge of draw_plots.  A frame is [err, cols, rows]; a row is a function *)
(* from column names to values, and a column outside its domain holds NaN.     *)

Range(seq) == {seq[i] : i \in 1..Len(seq)}

\* frame.drop(columns = dropped)
DropCols(frame, dropped) ==
    [frame EXCEPT !.cols = SelectSeq(@, LAMBDA c : c \notin dropped),
                  !.rows = [i \in 1..Len(@) |->
                               [c \in (DOMAIN @[i]) \ dropped |-> @[i][c]]]]

\* the rows of right matching one left row, in the order of right
RECURSIVE JoinRow(_, _)
JoinRow(lrow, rrows) ==
    IF rrows = <<>> THEN <<>>
    ELSE (IF Head(rrows).id = lrow.id THEN <<lrow @@ Head(rrows)>> ELSE <<>>)
         \o JoinRow(lrow, Tail(rrows))

RECURSIVE JoinRows(_, _)
JoinRows(lrows, rrows) ==
    IF lrows = <<>> THEN <<>>
    ELSE LET m == JoinRow(Head(lrows), rrows)
         IN  (IF m = <<>> THEN <<Head(lrows)>> ELSE m) \o JoinRows(Tail(lrows), rrows)

\* left.merge(right, on="id", how="left")
MergeLeft(left, right) ==
    IF "id" \notin Range(left.cols) \/ "id" \notin Range(right.cols) THEN Raised("KeyError")
    ELSE IF /\ left.rows /= <<>>
            /\ \A i \in 1..Len(left.rows) : left.rows[i].id.kind = "str"
            /\ \A j \in 1..Len(right.rows) : right.rows[j].id.kind = "int"
    THEN \* merging a key column of str on a key column of int64
         Raised("ValueError")
    ELSE [err |-> "",
          cols |-> left.cols \o SelectSeq(right.cols, LAMBDA c : c /= "id"),
          rows |-> JoinRows(left.rows, right.rows)]

merge_keep_common(dataset, resp) == MergeLeft(dataset, resp)

\* lines 231-233: Index.drop("id") raises KeyError when "id" is not in the index
merge(dataset, resp) ==
    LET inter == Range(dataset.cols) \cap Range(resp.cols)
    IN  IF "id" \notin inter THEN Raised("KeyError")
        ELSE MergeLeft(DropCols(dataset, inter \ {"id"}), resp)

----------------------------------------------------------------------------
(* Inputs of the pipeline *)

EmptyFrame == [err |-> "", cols |-> <<>>, rows |-> <<>>]

ItemCols == <<"id", "model", "data_descriptor", "code_data", "code">>

\* Generated code, line by line: plot displays one figure without binding a name
\* (as df.plot() does), raise raises ZeroDivisionError, style changes
\* plotting-library global state
JustPlot == <<<<"plot">>>>

JustRaise == <<<<"raise">>>>

\* generated code that imports the plotting libraries by the names of the teardown
StyledPlot == <<<<"import matplotlib.pyplot as plt">>, <<"import seaborn as sns">>,
                <<"style">>, <<"plot">>>>

Codes == {JustPlot, JustRaise, StyledPlot}

\* code_data of an item, two lines: import pandas as pd / df = pd.read_csv("data.csv")
LoadCode == ImportPandas \o <<"\n">> \o ReadCsvCall \o <<"\"">> \o DataCsv \o <<"\"", ")">>

\* code_data that names the file twice: ... df = pd.read_csv("data.csv") # data.csv
LoadCodeTwice == LoadCode \o <<" ", "#", " ">> \o DataCsv

ItemOf(id, code_data, code) ==
    [id |-> id, model |-> "m", data_descriptor |-> "d", code_data |-> code_data,
     code |-> code]

Item(id, code) == ItemOf(id, LoadCode, code)

Ids == {IntId(n) : n \in 1..MaxItems}

UniqueIds(rows) == \A i, j \in 1..Len(rows) : i /= j => rows[i].id /= rows[j].id

RowSeqs(ids, codes) ==
    {rows \in UNION {[1..n -> {Item(id, c) : id \in ids, c \in codes}] : n \in 0..MaxItems} :
        UniqueIds(rows)}

Tables == {[err |-> "", cols |-> ItemCols, rows |-> rows] : rows \in RowSeqs(Ids, Codes)}

Libs == {{f} : f \in Families}

\* the csv files of a set of ids
CsvOf(ids) == {csv_path(id) : id \in ids}

\* the tables and the blocks of the direct calls of build_plots and build_new_nb
DirectTables == {t \in Tables : Len(t.rows) <= 1}

Blocks == {<<>>, <<[first |-> MarkerPrefix \o <<"9">>, body |-> <<<<"x">>>>]>>}

----------------------------------------------------------------------------
(* The pipeline: VisGenerator(...), then calls of draw_plots, build_plots   *)
(* and build_new_nb, one after the other                                   *)

\* self.plots_nb_path after __init__: <output_folder>/all_plots.ipynb
AllPlots == -1

\* the call that made a notebook file (n the number of the draw_plots run), Old
\* for a file that was there before the object was made
File(by, n) == [by |-> by, n |-> n]

Old == File("", 0)

\* the indices i whose file plots_..._<i>.ipynb exists
IndexedFiles(f) == DOMAIN f \ {AllPlots}

\* open(p, "w"): makes the file when there is none and truncates it when there is
\* one; what nbf.write then puts into it is nb
WriteFile(f, p, file) == [i \in DOMAIN f \cup {p} |-> IF i \in DOMAIN f THEN f[i] ELSE file]

\* check_csv: the error it raises, "" when it returns
check_csv(csvs, dataset) == IF MissingCsv(csvs, dataset) THEN "FileNotFoundError" ELSE ""

Init ==
    /\ pc = "new"
    /\ csv \in {CsvOf(Ids)} \cup {CsvOf(Ids \ {id}) : id \in Ids}
    /\ lib \in Libs
    /\ \E pre \in SUBSET (0..MaxIndex) : folder = [i \in pre |-> Old]
    /\ hist = <<>>
    /\ last = None
    /\ path = AllPlots
    /\ table \in Tables
    /\ nb = <<>>
    /\ kernel = KernelIdle
    /\ response = EmptyFrame
    /\ result = EmptyFrame

\* VisGenerator.__init__ on the dataset held in table
Construct ==
    /\ pc = "new"
    /\ IF check_csv(csv, table) /= ""
       THEN pc' = "failed" /\ result' = Raised(check_csv(csv, table)) /\ table' = table
       ELSE pc' = "ready" /\ result' = EmptyFrame /\ table' = EmptyFrame
    /\ UNCHANGED <<csv, lib, folder, hist, last, path, nb, kernel, response>>

\* build_plots(dataset) for a table with rows, up to the start of the executor
\* process (lines 153-173), the notebook written at plots_nb_path = p.  generate_code
\* runs over every row before build_new_nb writes.  going: the position of the caller
\* while the executor runs, out: its position when build_plots raises.
StartBuild(dataset, p, file, going, out) ==
    IF MissingCsv(csv, dataset)
    THEN /\ pc' = out
         /\ result' = Raised("FileNotFoundError")
         /\ nb' = <<>>
         /\ kernel' = KernelIdle
         /\ folder' = folder
    ELSE /\ pc' = going
         /\ result' = EmptyFrame
         /\ nb' = build_new_nb(plot_cells(dataset, lib))
         /\ folder' = WriteFile(folder, p, file)
         /\ kernel' = [KernelIdle EXCEPT !.running = TRUE, !.pos = 1, !.work = nb']

\* draw_plots(dataset) up to the start of the executor process: lines 222-228
DrawPlotsCall(dataset) ==
    /\ Len(hist) < MaxRuns
    /\ table' = dataset
    /\ response' = EmptyFrame
    /\ UNCHANGED <<csv, lib>>
    /\ IF dataset.rows = <<>>
       THEN \* dataset["model"].iloc[0]
            /\ pc' = "done"
            /\ result' = Raised("IndexError")
            /\ nb' = <<>>
            /\ kernel' = KernelIdle
            /\ UNCHANGED <<folder, hist, last, path>>
       ELSE LET r == add_index_to_filename(IndexedFiles(folder))
            IN  /\ path' = r.results_file
                /\ last' = r.last_existing_file
                /\ hist' = Append(hist, [file |-> r.results_file,
                                         last |-> r.last_existing_file,
                                         seen |-> IndexedFiles(folder),
                                         persisted |-> ~MissingCsv(csv, dataset)])
                /\ StartBuild(dataset, r.results_file, File("draw_plots", Len(hist')),
                              "exec", "done")

\* the caller calls draw_plots on a table of its own
DrawPlots(dataset) == pc = "ready" /\ DrawPlotsCall(dataset)

\* the caller hands the table draw_plots returned to draw_plots again
DrawPlotsAgain == pc = "done" /\ result.err = "" /\ DrawPlotsCall(result)

\* build_plots(dataset) called by the caller itself, up to the start of the executor
\* process: the notebook is written at plots_nb_path as it stands
BuildPlots(dataset) ==
    /\ pc = "ready"
    /\ table' = dataset
    /\ response' = EmptyFrame
    /\ UNCHANGED <<csv, lib, hist, last, path>>
    /\ IF dataset.rows = <<>>
       THEN \* dataset.apply(...) of a frame without rows is a frame: no tolist
            /\ pc' = "built"
            /\ result' = Raised("AttributeError")
            /\ nb' = <<>>
            /\ kernel' = KernelIdle
            /\ folder' = folder
       ELSE StartBuild(dataset, path, File("build_new_nb", 0), "build", "built")

\* build_new_nb(blocks) called by the caller itself
BuildNewNb(blocks) ==
    /\ pc = "ready"
    /\ nb' = build_new_nb(blocks)
    /\ folder' = WriteFile(folder, path, File("build_new_nb", 0))
    /\ pc' = "written"
    /\ UNCHANGED <<csv, lib, hist, last, path, table, kernel, response, result>>

\* the executor process is running: started by draw_plots or by a direct build_plots
Executing == pc \in {"exec", "build"} /\ kernel.running

\* the position of the caller when subprocess.call returns
Called == IF pc = "exec" THEN "parse" ELSE "built"

\* The executor runs the next cell of the notebook
ExecCell ==
    /\ Executing
    /\ kernel.pos <= Len(kernel.work)
    /\ LET st == RunCell(kernel.work[kernel.pos], kernel.ns, kernel.rc)
       IN  IF st.raised /\ ~allow_errors
           THEN \* CellExecutionError: exit status 1, nothing written back
                /\ kernel' = [kernel EXCEPT !.running = FALSE, !.status = 1,
                                            !.fault = "cell"]
                /\ pc' = Called
           ELSE /\ kernel' = [kernel EXCEPT !.work[kernel.pos].outputs = st.outputs,
                                            !.ns = st.ns, !.rc = st.rc,
                                            !.pos = kernel.pos + 1]
                /\ pc' = pc
    /\ UNCHANGED <<csv, lib, folder, hist, last, path, table, nb, response, result>>

\* The executor has run every cell: --inplace writes the notebook back, exit status 0
ExecFinish ==
    /\ Executing
    /\ kernel.pos > Len(kernel.work)
    /\ nb' = kernel.work
    /\ kernel' = [kernel EXCEPT !.running = FALSE, !.status = 0]
    /\ pc' = Called
    /\ UNCHANGED <<csv, lib, folder, hist, last, path, table, response, result>>

\* The executor cannot start (pos = 1) or dies on the way: non-zero exit status,
\* the notebook file is left as build_new_nb wrote it, the process and all it held
\* are gone
HostFail ==
    /\ Executing
    /\ kernel' = [KernelIdle EXCEPT !.status = 1, !.fault = "host"]
    /\ pc' = Called
    /\ UNCHANGED <<csv, lib, folder, hist, last, path, table, nb, response, result>>

\* build_plots returns (the status of subprocess.call is dropped); draw_plots parses
\* the notebook and merges: lines 173-175 and 229-235
ParseMerge ==
    /\ pc = "parse"
    /\ response' = parse_plots_notebook(nb)
    /\ result' = IF response'.err /= "" THEN response' ELSE merge(table, response')
    /\ pc' = "done"
    /\ UNCHANGED <<csv, lib, folder, hist, last, path, table, nb, kernel>>

\* the call has returned or raised; the caller goes on to its next call
Return ==
    /\ pc \in {"done", "built", "written"}
    /\ pc' = "ready"
    /\ table' = EmptyFrame
    /\ nb' = <<>>
    /\ kernel' = KernelIdle
    /\ response' = EmptyFrame
    /\ result' = EmptyFrame
    /\ UNCHANGED <<csv, lib, folder, hist, last, path>>

Next ==
    \/ Construct
    \/ \E dataset \in Tables : DrawPlots(dataset)
    \/ \E dataset \in DirectTables : BuildPlots(dataset)
    \/ \E blocks \in Blocks : BuildNewNb(blocks)
    \/ ExecCell
    \/ ExecFinish
    \/ HostFail
    \/ ParseMerge
    \/ Return

Spec == Init /\ [][Next]_vars

----------------------------------------------------------------------------
(* Claims checked under Spec *)

Faults(code) == <<"raise">> \in Range(code)

Plots(code) == <<"plot">> \in Range(code)

\* a run of draw_plots whose executor process met no host-level failure
RanToEnd == pc = "done" /\ result.err = "" /\ kernel.fault /= "host" /\ table.rows /= <<>>

\* C1: whichever sub-units raise at run time, the executor runs every sub-unit and
\* parse_plots_notebook returns one Outcome per item, in item order: a faulting item
\* has a non-empty error, a non-faulting item that plots has has_plot = TRUE.
C1_Isolation ==
    RanToEnd =>
        /\ kernel.pos = Len(kernel.work) + 1
        /\ Len(response.rows) = Len(table.rows)
        /\ \A i \in 1..Len(table.rows) :
              /\ response.rows[i].id = table.rows[i].id
              /\ Faults(table.rows[i].code) => response.rows[i].error /= <<>>
              /\ (~Faults(table.rows[i].code) /\ Plots(table.rows[i].code))
                    => response.rows[i].has_plot

C1_Witness ==
    /\ RanToEnd
    /\ Len(table.rows) = 2
    /\ Faults(table.rows[1].code)
    /\ table.rows[2].code = JustPlot
    /\ response.rows[1].error /= <<>>
    /\ response.rows[2].has_plot
    /\ response.rows[2].error = <<>>

\* C2: when the executor process cannot start or exits with a host-level failure,
\* draw_plots and build_plots fail with an error; draw_plots does not return a
\* merged table.
C2_HostFaultPropagates ==
    (pc \in {"done", "built"} /\ kernel.fault = "host") => result.err /= ""

\* C3: between two consecutive item sub-units the variable namespace and the
\* plotting-library global state are reset: sub-unit k+1 starts with none of the
\* state sub-unit k created, also when sub-unit k raised.
C3_StateReset ==
    (/\ Executing
     /\ kernel.pos >= 2
     /\ kernel.pos <= Len(kernel.work)
     /\ IsMarked(kernel.work[kernel.pos - 1]))
        => kernel.ns = {} /\ ~kernel.rc

PersistedDistinct(h) ==
    \A i, j \in 1..Len(h) : (i < j /\ h[i].persisted /\ h[j].persisted) => h[i].file /= h[j].file

\* a step of a run of draw_plots: its start, or a step taken while it is under way
RunStep == hist' /= hist \/ pc \in {"exec", "parse", "done"}

\* C6: across the runs of draw_plots in one output folder, every run persists its
\* notebook at a path that did not exist when add_index_to_filename selected it, the
\* paths of any two runs differ, and no step of a run writes, overwrites or removes
\* a file already in the folder: whenever a step of a run writes a notebook, it
\* writes the file that this run made.
C6_NoOverwrite ==
    [][/\ hist' /= hist => path' \notin DOMAIN folder
       /\ RunStep => \A i \in DOMAIN folder : i \in DOMAIN folder' /\ folder'[i] = folder[i]
       /\ PersistedDistinct(hist')
       /\ (RunStep /\ nb' /= nb /\ nb' /= <<>>)
            => /\ path' = hist'[Len(hist')].file
               /\ folder'[path'] = File("draw_plots", Len(hist'))
               /\ \A k \in 1..(Len(hist') - 1) :
                     hist'[k].persisted => hist'[k].file /= path']_vars

\* two runs after an older file: each artifact is as its run wrote it
C6_Witness ==
    /\ pc = "done"
    /\ Len(hist) = 2
    /\ hist[1].persisted /\ hist[2].persisted
    /\ folder[hist[1].file] = File("draw_plots", 1)
    /\ folder[hist[2].file] = File("draw_plots", 2)
    /\ \E i \in DOMAIN folder : folder[i] = Old

\* C9: when data-<id>.csv of an item is absent, construction fails with
\* FileNotFoundError for the dataset it is given, and draw_plots and build_plots
\* fail with FileNotFoundError for the table they are given, wherever the item
\* stands in the table, before the notebook is written and before the executor is
\* started.
C9_MissingCsvFatal ==
    [][/\ pc = "new" =>
            IF \E i \in 1..Len(table.rows) : csv_path(table.rows[i].id) \notin csv
            THEN pc' = "failed" /\ result'.err = "FileNotFoundError"
            ELSE pc' = "ready"
       /\ (/\ pc = "ready"
           /\ \E i \in 1..Len(table'.rows) : csv_path(table'.rows[i].id) \notin csv)
            => /\ pc' \in {"done", "built"}
               /\ result'.err = "FileNotFoundError"
               /\ folder' = folder
               /\ nb' = <<>>
               /\ ~kernel'.running /\ kernel'.pos = 0]_vars

C9_Witness ==
    /\ pc = "done"
    /\ result.err = "FileNotFoundError"
    /\ Len(table.rows) = 2
    /\ csv_path(table.rows[1].id) \in csv
    /\ csv_path(table.rows[2].id) \notin csv
    /\ ~hist[Len(hist)].persisted
    /\ hist[Len(hist)].file \notin DOMAIN folder

----------------------------------------------------------------------------
(* add_index_to_filename on any folder: files come and go between the calls *)

InitIndex ==
    /\ pc = "index"
    /\ csv = {}
    /\ lib = {}
    /\ \E pre \in SUBSET (0..MaxIndex) : folder = [i \in pre |-> Old]
    /\ hist = <<>>
    /\ last = None
    /\ path = AllPlots
    /\ table = EmptyFrame
    /\ nb = <<>>
    /\ kernel = KernelIdle
    /\ response = EmptyFrame
    /\ result = EmptyFrame

AddIndexCall ==
    /\ pc = "index"
    /\ Len(hist) < MaxRuns
    /\ LET r == add_index_to_filename(IndexedFiles(folder))
       IN  /\ path' = r.results_file
           /\ last' = r.last_existing_file
           /\ hist' = Append(hist, [file |-> r.results_file, last |-> r.last_existing_file,
                                    seen |-> IndexedFiles(folder), persisted |-> FALSE])
    /\ UNCHANGED <<pc, csv, lib, folder, table, nb, kernel, response, result>>

\* somebody writes the file of index i
CreateFile(i) ==
    /\ pc = "index"
    /\ i \notin DOMAIN folder
    /\ folder' = WriteFile(folder, i, Old)
    /\ UNCHANGED <<pc, csv, lib, hist, last, path, table, nb, kernel, response, result>>

\* somebody removes the file of index i
RemoveFile(i) ==
    /\ pc = "index"
    /\ i \in DOMAIN folder
    /\ folder' = [j \in DOMAIN folder \ {i} |-> folder[j]]
    /\ UNCHANGED <<pc, csv, lib, hist, last, path, table, nb, kernel, response, result>>

NextIndex ==
    \/ AddIndexCall
    \/ \E i \in 0..(MaxIndex + 1) : CreateFile(i)
    \/ \E i \in 0..(MaxIndex + 1) : RemoveFile(i)

SpecIndex == InitIndex /\ [][NextIndex]_vars

\* C7 as claimed: add_index_to_filename returns index 0 when no indexed file exists
\* and otherwise the highest existing index + 1, never an index an earlier call
\* returned, and its second value is the existing file of highest index (None when
\* there is none).
C7_HighestPlusOne ==
    \A k \in 1..Len(hist) :
        /\ hist[k].file = IF hist[k].seen = {} THEN 0 ELSE Max(hist[k].seen) + 1
        /\ hist[k].last = IF hist[k].seen = {} THEN None ELSE Max(hist[k].seen)
        /\ \A j \in 1..(k - 1) : hist[j].file /= hist[k].file

\* C7 as amended: add_index_to_filename returns the first index, counting from 0,
\* whose file does not exist (0 when file 0 does not exist, whatever else exists),
\* never the index of an existing file, and its second value is the file of the
\* index before the one returned (None when 0 is returned).
C7_FirstUnused ==
    \A k \in 1..Len(hist) :
        /\ hist[k].file >= 0
        /\ hist[k].file \notin hist[k].seen
        /\ \A j \in 0..(hist[k].file - 1) : j \in hist[k].seen
        /\ hist[k].last = IF hist[k].file = 0 THEN None ELSE hist[k].file - 1

\* a call on a folder with a gap: _0 and _2 exist, _1 does not
C7_Witness ==
    /\ pc = "index"
    /\ hist /= <<>>
    /\ hist[Len(hist)].seen = {0, 2}
    /\ hist[Len(hist)].file = 1
    /\ hist[Len(hist)].last = 0

----------------------------------------------------------------------------
(* parse_plots_notebook on any executed notebook *)

\* the outputs a cell can hold
Outputs ==
    {ErrorOutput("NameError", "name 'x' is not defined"),
     ErrorOutput("ZeroDivisionError", "division by zero"),
     DisplayData(Png, 1), DisplayData(Png, 2), DisplayData(Plain, 0),
     ExecuteResult(Png, 3), StreamOutput}

OutputSeqs == UNION {[1..n -> Outputs] : n \in 0..MaxOutputs}

MarkedCell(n, outputs) ==
    [cell_type |-> "code", first |-> MarkerPrefix \o IntStr(n),
     body |-> <<<<"%reset -f">>>>, outputs |-> outputs]

\* a marked cell of a notebook with CRLF line ends: split("\n") leaves the \r
CrlfCell(n, outputs) ==
    [MarkedCell(n, outputs) EXCEPT !.first = @ \o <<"\r">>]

UnmarkedCell ==
    [cell_type |-> "code", first |-> SetupLine, body |-> <<<<"!pip install lets-plot">>>>,
     outputs |-> <<StreamOutput, DisplayData(Png, 4),
                   ErrorOutput("OSError", "no network")>>]

\* one cell with any outputs, between cells that are not code, not marked, or marked
Notebooks ==
    {before \o <<MarkedCell(1, outputs)>> \o after :
        before \in {<<>>, <<MarkdownCell>>, <<UnmarkedCell>>},
        outputs \in OutputSeqs,
        after \in {<<>>, <<MarkedCell(2, <<DisplayData(Png, 5)>>)>>,
                   <<MarkedCell(2, <<ErrorOutput("KeyError", "'a'")>>)>>,
                   <<CrlfCell(2, <<DisplayData(Png, 6)>>)>>}}

InitParse ==
    /\ pc = "executed"
    /\ csv = {}
    /\ lib = {}
    /\ folder = <<>>
    /\ hist = <<>>
    /\ last = None
    /\ path = AllPlots
    /\ table = EmptyFrame
    /\ nb \in Notebooks
    /\ kernel = KernelIdle
    /\ response = EmptyFrame
    /\ result = EmptyFrame

ParseNotebook ==
    /\ pc = "executed"
    /\ response' = parse_plots_notebook(nb)
    /\ pc' = "parsed"
    /\ UNCHANGED <<csv, lib, folder, hist, last, path, table, nb, kernel, result>>

NextParse == ParseNotebook

SpecParse == InitParse /\ [][NextParse]_vars

MarkedCells(cells) == SelectSeq(cells, IsMarked)

IsError(output) == output.output_type = "error"

ErrorText(output) == <<output.ename, ": ", output.evalue>>

ErrorIndexes(outputs) == {i \in 1..Len(outputs) : IsError(outputs[i])}

Min(S) == CHOOSE x \in S : \A y \in S : x <= y

\* the response holds one Outcome per marked cell, in cell order
OnePerMarkedCell ==
    response.err = "" /\ Len(response.rows) = Len(MarkedCells(nb))

\* C5 as claimed: a marked sub-unit with one or more error records gets the text
\* "<ename>: <evalue>" of its FIRST error record; later error records do not
\* replace it.
C5_FirstErrorWins ==
    pc = "parsed" =>
        /\ OnePerMarkedCell
        /\ \A k \in 1..Len(MarkedCells(nb)) :
              LET outputs == MarkedCells(nb)[k].outputs
              IN  ErrorIndexes(outputs) /= {} =>
                     response.rows[k].error = ErrorText(outputs[Min(ErrorIndexes(outputs))])

\* C5 as amended: a marked sub-unit with one or more error records gets the text
\* "<ename>: <evalue>" of its LAST error record in emission order: every later
\* error record replaces the earlier one.
C5_LastErrorWins ==
    pc = "parsed" =>
        /\ OnePerMarkedCell
        /\ \A k \in 1..Len(MarkedCells(nb)) :
              LET outputs == MarkedCells(nb)[k].outputs
              IN  ErrorIndexes(outputs) /= {} =>
                     response.rows[k].error = ErrorText(outputs[Max(ErrorIndexes(outputs))])

C5_Witness ==
    /\ pc = "parsed"
    /\ LET outputs == MarkedCells(nb)[1].outputs
       IN  /\ Cardinality(ErrorIndexes(outputs)) = 2
           /\ ErrorText(outputs[1]) /= ErrorText(outputs[2])
           /\ response.rows[1].error = ErrorText(outputs[2])

IsImageOutput(output) == output.output_type = "display_data" /\ "image/png" \in output.data

\* C10: plots_generated of a marked sub-unit is the sequence of the image blobs of
\* its image outputs, one per image output, in emission order, whether or not the
\* sub-unit also recorded an error; has_plot is TRUE exactly when it is non-empty.
C10_ImagesInOrder ==
    pc = "parsed" =>
        /\ OnePerMarkedCell
        /\ \A k \in 1..Len(MarkedCells(nb)) :
              LET shown == SelectSeq(MarkedCells(nb)[k].outputs, IsImageOutput)
                  got == response.rows[k].plots_generated
              IN  /\ Len(got) = Len(shown)
                  /\ \A i \in 1..Len(shown) : got[i] = shown[i].image
                  /\ response.rows[k].has_plot = (got /= <<>>)
                  /\ response.rows[k].has_plot =
                        (\E i \in 1..Len(MarkedCells(nb)[k].outputs) :
                            IsImageOutput(MarkedCells(nb)[k].outputs[i]))

\* an image emitted before a fault is kept
C10_Witness ==
    /\ pc = "parsed"
    /\ Len(nb[1].outputs) = 2
    /\ IsImageOutput(nb[1].outputs[1])
    /\ IsError(nb[1].outputs[2])
    /\ response.rows[1].plots_generated = <<nb[1].outputs[1].image>>
    /\ response.rows[1].has_plot
    /\ response.rows[1].error /= <<>>

----------------------------------------------------------------------------
(* The id marker: draw_plots on tables whose ids are ints or strs *)

IdChars == {"d", "i", "a", "7", "-", " "}

StrIds == {StrId(t) : t \in UNION {[1..n -> IdChars] : n \in 1..MaxStrLen}}

AllIds == {IntId(n) : n \in (-MaxInt)..MaxInt} \cup StrIds

SecondIds == {IntId(7), StrId(<<"7">>)}

\* one row of any id, alone or followed by a row of another id
IdTables ==
    {[err |-> "", cols |-> ItemCols, rows |-> rows] :
        rows \in {<<Item(id, JustPlot)>> : id \in AllIds}
                 \cup {r \in {<<Item(id, JustPlot), ItemOf(id2, LoadCodeTwice, JustRaise)>> :
                                 id \in AllIds, id2 \in SecondIds} : UniqueIds(r)}}

InitIds ==
    /\ pc = "ready"
    /\ csv = CsvOf(AllIds)
    /\ lib \in {{"matplotlib"}, {"lets-plot"}}
    /\ folder = <<>>
    /\ hist = <<>>
    /\ last = None
    /\ path = AllPlots
    /\ table = EmptyFrame
    /\ nb = <<>>
    /\ kernel = KernelIdle
    /\ response = EmptyFrame
    /\ result = EmptyFrame

NextIds ==
    \/ \E dataset \in IdTables : DrawPlots(dataset)
    \/ ExecCell
    \/ ExecFinish
    \/ HostFail
    \/ ParseMerge
    \/ Return

SpecIds == InitIds /\ [][NextIds]_vars

\* what C4 says of the extractor after a run on the table in table
IdsRecovered ==
    /\ response.err = ""
    /\ Len(response.rows) <= Len(table.rows)
    /\ Len(response.rows) = Len(MarkedCells(nb))
    /\ \A k \in 1..Len(response.rows) :
          /\ response.rows[k].id = table.rows[k].id
          /\ MarkedCells(nb)[k].first = MarkerPrefix \o FormatId(table.rows[k].id)
          /\ \E i \in 1..Len(table.rows) : response.rows[k].id = table.rows[i].id

\* C4 as claimed: for item tables with unique ids, int or str, the extractor returns
\* at most n Outcomes, skips the sub-units without marker, and the id of every
\* Outcome is the id generate_code wrote into the first line of its sub-unit.
C4_IdRoundTrip ==
    (pc = "done" /\ table.rows /= <<>>) => IdsRecovered

\* C4 as amended: the same, for item tables whose ids are all ints.
C4_IntIdRoundTrip ==
    (/\ pc = "done"
     /\ table.rows /= <<>>
     /\ \A i \in 1..Len(table.rows) : table.rows[i].id.kind = "int")
        => IdsRecovered

\* a setup sub-unit is skipped; a negative id of two digits comes back
C4_Witness ==
    /\ pc = "done"
    /\ lib = {"lets-plot"}
    /\ Len(table.rows) = 2
    /\ Len(nb) = 3
    /\ table.rows[1].id.kind = "int" /\ table.rows[1].id.n < -9
    /\ table.rows[2].id = IntId(7)
    /\ Len(response.rows) = 2
    /\ response.rows[1].id = table.rows[1].id
    /\ response.rows[2].id = table.rows[2].id

----------------------------------------------------------------------------
(* The merge of draw_plots: runs on item tables that may carry the outcome   *)
(* columns of an earlier run, and runs on the table an earlier run returned *)

PriorCols == <<"error", "plots_generated", "has_plot">>

\* a row that carries the outcome fields of an earlier run
WithPrior(row) ==
    row @@ [error |-> <<"Stale", ": ", "old">>, plots_generated |-> <<9>>, has_plot |-> TRUE]

\* item tables with rows and unique ids: plain, or carrying the outcome columns of
\* an earlier run at the end or among the item columns
MergeTables ==
    LET plain == RowSeqs(Ids, {JustPlot, JustRaise}) \ {<<>>}
    IN  {[err |-> "", cols |-> ItemCols, rows |-> rows] : rows \in plain}
        \cup {[err |-> "", cols |-> ItemCols \o PriorCols,
               rows |-> [i \in 1..Len(rows) |-> WithPrior(rows[i])]] : rows \in plain}
        \cup {[err |-> "", cols |-> <<"id", "has_plot", "error">> \o Tail(ItemCols)
                                    \o <<"plots_generated">>,
               rows |-> [i \in 1..Len(rows) |-> WithPrior(rows[i])]] : rows \in plain}

InitMerge ==
    /\ pc = "ready"
    /\ csv = CsvOf(Ids)
    /\ lib \in {{"matplotlib"}, {"plotly"}}
    /\ folder = <<>>
    /\ hist = <<>>
    /\ last = None
    /\ path = AllPlots
    /\ table = EmptyFrame
    /\ nb = <<>>
    /\ kernel = KernelIdle
    /\ response = EmptyFrame
    /\ result = EmptyFrame

NextMerge ==
    \/ \E dataset \in MergeTables : DrawPlots(dataset)
    \/ DrawPlotsAgain
    \/ ExecCell
    \/ ExecFinish
    \/ HostFail
    \/ ParseMerge
    \/ Return

SpecMerge == InitMerge /\ [][NextMerge]_vars

Count(seq, x) == Cardinality({i \in 1..Len(seq) : seq[i] = x})

\* C8: for every item table with unique ids and the Outcome collection of the run,
\* also when the table carries error / plots_generated / has_plot from an earlier
\* run, the merge of draw_plots returns one row per item, in item order, with the
\* item fields unchanged and error / plots_generated / has_plot once each, holding
\* the values of the newest Outcome of that id; merging twice gives the columns
\* (and the rows) that merging once gives.
C8_MergeSupersedes ==
    pc = "done" =>
        /\ result.err = ""
        /\ Len(result.rows) = Len(table.rows)
        /\ result.cols = ItemCols \o PriorCols
        /\ \A c \in Range(PriorCols) : Count(result.cols, c) = 1
        /\ \A c \in Range(ItemCols) : Count(result.cols, c) = 1
        /\ \A i \in 1..Len(table.rows) :
              /\ DOMAIN result.rows[i] \subseteq Range(result.cols)
              /\ \A c \in Range(ItemCols) : result.rows[i][c] = table.rows[i][c]
              /\ \A j \in 1..Len(response.rows) :
                    response.rows[j].id = table.rows[i].id =>
                        \A c \in Range(PriorCols) :
                            /\ c \in DOMAIN result.rows[i]
                            /\ result.rows[i][c] = response.rows[j][c]
              /\ (\A j \in 1..Len(response.rows) : response.rows[j].id /= table.rows[i].id)
                    => \A c \in Range(PriorCols) : c \notin DOMAIN result.rows[i]
        /\ LET again == merge(result, response)
           IN  again.err = "" /\ again.cols = result.cols /\ again.rows = result.rows

\* a second run on the table the first run returned: the first run met a host
\* failure and left an empty error, the second run records the error of the item
C8_Witness ==
    /\ pc = "done"
    /\ Len(hist) = 2
    /\ table.cols = ItemCols \o PriorCols
    /\ table.rows[1].code = JustRaise
    /\ table.rows[1].error = <<>>
    /\ response.rows[1].error /= <<>>
    /\ result.rows[1].error = response.rows[1].error
    /\ Count(result.cols, "error") = 1

====
